---- MODULE Spec2Model ----
(***************************************************************************)
(* The DocumentUpload component (components/DocumentUpload.js): its ten    *)
(* useState fields, the uncontrolled file input it owns, the upload        *)
(* requests it has in flight, and its event handlers.                      *)
(*                                                                         *)
(* JavaScript values are tagged records (jstype) so that `||`, `&&` and    *)
(* `?.` are computed on truthiness as the code computes them.  Strings     *)
(* whose characters the code inspects (file names) are sequences of        *)
(* one-character strings; fixed messages are TLA+ strings.                 *)
(***************************************************************************)
EXTENDS Integers, Sequences, FiniteSets, TLC

VARIABLES file, fileName, loading, keywords, error, documentInfo, summary,
          evaluation, extractedMetadata, isSuccess,
          inputValue, pending, lastAlert

vars == <<file, fileName, loading, keywords, error, documentInfo, summary,
          evaluation, extractedMetadata, isSuccess,
          inputValue, pending, lastAlert>>

results == <<keywords, documentInfo, summary, evaluation, extractedMetadata>>

----------------------------------------------------------------------------
(* Bounds of the model *)

MaxKeywords == 2
MaxClock == 1
MaxPending == 2

(* Program constant: Math.random() * 1000 *)
RandomRange == 1000

----------------------------------------------------------------------------
(* JavaScript values *)

Undefined == [jstype |-> "undefined"]
Null == [jstype |-> "null"]
Str(s) == [jstype |-> "string", chars |-> s]
Num(n) == [jstype |-> "number", num |-> n]
Arr(q) == [jstype |-> "array", items |-> q]
FileObj(n) == [jstype |-> "file", name |-> n]

Truthy(v) ==
    CASE v.jstype = "undefined" -> FALSE
      [] v.jstype = "null" -> FALSE
      [] v.jstype = "string" -> v.chars /= <<>>
      [] v.jstype = "number" -> v.num /= 0
      [] OTHER -> TRUE

(* a || b *)
Or(a, b) == IF Truthy(a) THEN a ELSE b

----------------------------------------------------------------------------
(* String operations used by handleFileChange *)

UpperCase == <<"A", "C", "D", "E", "F", "O", "P", "T", "X">>
LowerCase == <<"a", "c", "d", "e", "f", "o", "p", "t", "x">>

toLowerCaseChar(c) ==
    IF \E i \in DOMAIN UpperCase : UpperCase[i] = c
    THEN LowerCase[CHOOSE i \in DOMAIN UpperCase : UpperCase[i] = c]
    ELSE c

toLowerCase(s) == [i \in DOMAIN s |-> toLowerCaseChar(s[i])]

RECURSIVE split(_, _)
split(s, sep) ==
    IF \E i \in DOMAIN s : s[i] = sep
    THEN LET i == CHOOSE k \in DOMAIN s :
                      s[k] = sep /\ \A j \in 1..(k - 1) : s[j] /= sep
         IN <<SubSeq(s, 1, i - 1)>> \o split(SubSeq(s, i + 1, Len(s)), sep)
    ELSE <<s>>

pop(a) == a[Len(a)]

(* selectedFile.name.split('.').pop()?.toLowerCase() *)
fileExtension(name) == toLowerCase(pop(split(name, ".")))

(* Variant: the list also lets executables through *)
allowedExtensions_withExe ==
    {<<"p", "d", "f">>, <<"d", "o", "c", "x">>, <<"t", "x", "t">>, <<"e", "x", "e">>}

allowedExtensions == {<<"p", "d", "f">>, <<"d", "o", "c", "x">>, <<"t", "x", "t">>}

IsAllowed(name) ==
    fileExtension(name) /= <<>> /\ fileExtension(name) \in allowedExtensions

----------------------------------------------------------------------------
(* Inputs: the files a user can pick *)

ScanUpperPdf == <<"a", ".", "P", "D", "F">>
NotesDocx == <<"b", ".", "d", "o", "c", "x">>
LegacyDoc == <<"c", ".", "d", "o", "c">>
PlainTxt == <<"d", ".", "t", "x", "t">>
ToolExe == <<"e", ".", "e", "x", "e">>
TrailingDot == <<"f", ".">>
NoDot == <<"t", "x", "t">>

FileNames == {ScanUpperPdf, NotesDocx, LegacyDoc, PlainTxt, ToolExe, TrailingDot,
              NoDot}

NoSelection == <<>>

----------------------------------------------------------------------------
(* Messages *)

NoAlert == "none"
InvalidTypeAlert == "Invalid file type. Please select a PDF, DOCX, or TXT file."
NoFileAlert == "Please select a file to upload."
UploadError == "Failed to upload and process document. Please try again. Check server status."

----------------------------------------------------------------------------
(* Initial state: the useState initial values, an empty file input *)

Init ==
    /\ file = Null
    /\ fileName = <<>>
    /\ loading = FALSE
    /\ keywords = Arr(<<>>)
    /\ error = ""
    /\ documentInfo = Null
    /\ summary = Str(<<>>)
    /\ evaluation = Null
    /\ extractedMetadata = Null
    /\ isSuccess = FALSE
    /\ inputValue = NoSelection
    /\ pending = <<>>
    /\ lastAlert = NoAlert

----------------------------------------------------------------------------
(* handleFileChange *)

(* Variant: the error is cleared whatever the selection *)
handleFileChange_clearsErrorAnyway(selected) ==
    /\ isSuccess' = FALSE
    /\ error' = ""
    /\ IF selected /= NoSelection
       THEN IF IsAllowed(selected)
            THEN /\ file' = FileObj(selected)
                 /\ fileName' = selected
                 /\ inputValue' = selected
                 /\ lastAlert' = NoAlert
            ELSE /\ lastAlert' = InvalidTypeAlert
                 /\ inputValue' = NoSelection
                 /\ file' = Null
                 /\ fileName' = <<>>
       ELSE /\ inputValue' = NoSelection
            /\ lastAlert' = NoAlert
            /\ UNCHANGED <<file, fileName>>
    /\ UNCHANGED <<loading, results, pending>>

handleFileChange(selected) ==
    /\ isSuccess' = FALSE
    /\ IF selected /= NoSelection
       THEN IF IsAllowed(selected)
            THEN /\ file' = FileObj(selected)
                 /\ fileName' = selected
                 /\ error' = ""
                 /\ inputValue' = selected
                 /\ lastAlert' = NoAlert
            ELSE /\ lastAlert' = InvalidTypeAlert
                 /\ inputValue' = NoSelection
                 /\ file' = Null
                 /\ fileName' = <<>>
                 /\ UNCHANGED error
       ELSE /\ inputValue' = NoSelection
            /\ lastAlert' = NoAlert
            /\ UNCHANGED <<file, fileName, error>>
    /\ UNCHANGED <<loading, results, pending>>

(* The browser fires change on the file input when its selection changes *)
FileInputChange ==
    \E selected \in FileNames \cup {NoSelection} :
        /\ selected /= inputValue
        /\ handleFileChange(selected)

----------------------------------------------------------------------------
(* Render-time values *)

hasResults ==
    \/ Len(keywords.items) > 0
    \/ Truthy(evaluation)
    \/ Truthy(extractedMetadata)
    \/ Truthy(summary)

(* Variant: the button stays enabled while a request is in flight *)
submitDisabled_ignoresLoading == ~Truthy(file)

(* disabled={!file || loading} on the submit button *)
submitDisabled == ~Truthy(file) \/ loading

(* {(file || hasResults) && <button ... disabled={loading}>} *)
resetRendered == Truthy(file) \/ hasResults
resetDisabled == loading

errorMessageRendered == error /= ""
documentInfoRendered == hasResults /\ Truthy(documentInfo)

(* Property lookup on an object literal: own keys first, then the members *)
(* every object literal inherits from Object.prototype                    *)
ObjectPrototypeKeys == {"constructor", "toString", "valueOf", "hasOwnProperty"}
Inherited(key) == [jstype |-> "function", member |-> key]

decisionText ==
    [ ACCEPT |-> "ACCEPT (check mark)",
      REJECT |-> "REJECT (cross mark)",
      REVIEW |-> "REVIEW (warning sign)" ]

styleMap ==
    [ ACCEPT |-> [backgroundColor |-> "var(--success-bg)", color |-> "var(--success-color)"],
      REJECT |-> [backgroundColor |-> "var(--error-bg)", color |-> "var(--error-color)"],
      REVIEW |-> [backgroundColor |-> "var(--warning-bg)", color |-> "var(--warning-color)"] ]

Own(v) == [jstype |-> "own property", value |-> v]

Lookup(map, key) ==
    IF key \in DOMAIN map THEN Own(map[key])
    ELSE IF key \in ObjectPrototypeKeys THEN Inherited(key)
    ELSE Undefined

renderDecisionBadge(decision) ==
    LET badgeStyle == Or(Lookup(styleMap, decision), Lookup(styleMap, "REVIEW"))
        text == Or(Lookup(decisionText, decision), Lookup(decisionText, "REVIEW"))
    IN [style |-> badgeStyle, text |-> text]

----------------------------------------------------------------------------
(* Inputs: what the upload endpoint can answer *)

Decisions == {"ACCEPT", "REJECT", "REVIEW", "PENDING", "constructor", "undefined"}
Evaluation(d) == [jstype |-> "object", decision |-> d]
RfpMetadata == [jstype |-> "object", timeline_weeks |-> 6]
KeywordItem(i) == [keyword |-> i, relevance_score |-> 1]
KeywordArray(n) == Arr([i \in 1..n |-> KeywordItem(i)])

ServerFileName == <<"s", ".", "p", "d", "f">>
ServerDate == <<"s", "0">>
ServerStatus == <<"Q">>
SummaryText == <<"s", "u", "m">>

ResponseData ==
    [ jstype : {"object"},
      filename : {Undefined, Str(ServerFileName)},
      upload_date : {Undefined, Str(ServerDate)},
      keywords : {Undefined, KeywordArray(0), KeywordArray(MaxKeywords)},
      id : {Undefined, Num(7)},
      status : {Undefined, Str(ServerStatus)},
      summary : {Undefined, Str(SummaryText)},
      evaluation : {Undefined} \cup {Evaluation(d) : d \in Decisions},
      rfp_metadata : {Undefined, RfpMetadata} ]

(* A 2xx answer carries a JSON object, or no body at all *)
ResponseBodies == ResponseData \cup {Null}

Clock == 1..MaxClock
Digits == <<"1", "2", "3">>
toISOString(t) == <<"t", Digits[t]>>

(* Math.floor(Math.random() * 1000): the ends of its range *)
RandomIds == {0, RandomRange - 1}

FailureCauses == {"network error", "non-2xx status"}

----------------------------------------------------------------------------
(* handleSubmit, up to the await *)

(* Variant: a new submission leaves the previous error in place *)
clearPriorOutcome_keepsError ==
    /\ isSuccess' = FALSE
    /\ keywords' = Arr(<<>>)
    /\ documentInfo' = Null
    /\ summary' = Str(<<>>)
    /\ evaluation' = Null
    /\ extractedMetadata' = Null
    /\ UNCHANGED error

clearPriorOutcome ==
    /\ isSuccess' = FALSE
    /\ error' = ""
    /\ keywords' = Arr(<<>>)
    /\ documentInfo' = Null
    /\ summary' = Str(<<>>)
    /\ evaluation' = Null
    /\ extractedMetadata' = Null

handleSubmit ==
    IF ~Truthy(file)
    THEN /\ lastAlert' = NoFileAlert
         /\ UNCHANGED <<file, fileName, loading, results, error, isSuccess,
                        inputValue, pending>>
    ELSE /\ loading' = TRUE
         /\ clearPriorOutcome
         /\ pending' = Append(pending, [formData |-> [file |-> file],
                                        fileName |-> fileName])
         /\ lastAlert' = NoAlert
         /\ UNCHANGED <<file, fileName, inputValue>>

(* A click on the enabled submit button submits the form *)
SubmitButtonClick ==
    /\ ~submitDisabled
    /\ Len(pending) < MaxPending
    /\ handleSubmit

(* A submit event that reaches the form with no file selected: the case *)
(* the handler's own !file check answers                                 *)
SubmitWithoutFile ==
    /\ ~Truthy(file)
    /\ handleSubmit

----------------------------------------------------------------------------
(* handleSubmit, after the await: try / catch / finally *)

Remove(q, i) == SubSeq(q, 1, i - 1) \o SubSeq(q, i + 1, Len(q))

(* Variant: the failure is logged but no message is set *)
catchBlock_silent ==
    /\ isSuccess' = FALSE
    /\ UNCHANGED error
    /\ UNCHANGED results

catchBlock ==
    /\ error' = UploadError
    /\ isSuccess' = FALSE
    /\ UNCHANGED results

keywordCount(data) ==
    IF Truthy(data.keywords) THEN Or(Num(Len(data.keywords.items)), Num(0))
    ELSE Num(0)

tryBlock(req, data, now, rnd) ==
    IF ~Truthy(data)
    THEN catchBlock
    ELSE /\ documentInfo' =
                [ jstype |-> "object",
                  filename |-> Or(data.filename, Str(req.fileName)),
                  upload_date |-> Or(data.upload_date, Str(toISOString(now))),
                  keyword_count |-> keywordCount(data),
                  id |-> Or(data.id, Num(rnd)),
                  status |-> Or(data.status, Str(<<"P", "R", "O", "C", "E", "S", "S", "E", "D">>)) ]
         /\ keywords' = Or(data.keywords, Arr(<<>>))
         /\ summary' = Or(data.summary, Str(<<>>))
         /\ evaluation' = Or(data.evaluation, Null)
         /\ extractedMetadata' = Or(data.rfp_metadata, Null)
         /\ isSuccess' = TRUE
         /\ UNCHANGED error

(* Variant: loading is not reset once the request has settled *)
finallyBlock_keepsLoading(i) ==
    /\ pending' = Remove(pending, i)
    /\ UNCHANGED <<loading, file, fileName, inputValue, lastAlert>>

finallyBlock(i) ==
    /\ loading' = FALSE
    /\ pending' = Remove(pending, i)
    /\ UNCHANGED <<file, fileName, inputValue, lastAlert>>

Fulfilled(data) == [settled |-> "fulfilled", data |-> data]
Rejected(cause) == [settled |-> "rejected", cause |-> cause]

(* The continuation of request i once axios.post has settled *)
afterAwait(i, response, now, rnd) ==
    /\ IF response.settled = "rejected"
       THEN catchBlock
       ELSE tryBlock(pending[i], response.data, now, rnd)
    /\ finallyBlock(i)

(* axios.post resolves: a 2xx response *)
RequestResolves ==
    \E i \in DOMAIN pending, data \in ResponseBodies, now \in Clock, rnd \in RandomIds :
        afterAwait(i, Fulfilled(data), now, rnd)

(* axios.post rejects: network failure or a non-2xx status *)
RequestRejects ==
    \E i \in DOMAIN pending, cause \in FailureCauses, now \in Clock, rnd \in RandomIds :
        afterAwait(i, Rejected(cause), now, rnd)

----------------------------------------------------------------------------
(* handleReset *)

handleReset ==
    /\ file' = Null
    /\ fileName' = <<>>
    /\ loading' = FALSE
    /\ error' = ""
    /\ keywords' = Arr(<<>>)
    /\ documentInfo' = Null
    /\ summary' = Str(<<>>)
    /\ evaluation' = Null
    /\ extractedMetadata' = Null
    /\ isSuccess' = FALSE
    /\ lastAlert' = NoAlert
    /\ UNCHANGED <<inputValue, pending>>

ResetButtonClick ==
    /\ resetRendered
    /\ ~resetDisabled
    /\ handleReset

----------------------------------------------------------------------------

Next ==
    \/ FileInputChange
    \/ SubmitButtonClick
    \/ SubmitWithoutFile
    \/ RequestResolves
    \/ RequestRejects
    \/ ResetButtonClick


Spec == Init /\ [][Next]_vars

----------------------------------------------------------------------------
(* Vocabulary of the properties *)

ClaimedExtensions ==
    {<<"p", "d", "f">>, <<"d", "o", "c", "x">>, <<"d", "o", "c">>, <<"t", "x", "t">>}

Cleared ==
    /\ keywords = Arr(<<>>)
    /\ documentInfo = Null
    /\ summary = Str(<<>>)
    /\ evaluation = Null
    /\ extractedMetadata = Null

FreshMount ==
    /\ file = Null
    /\ fileName = <<>>
    /\ loading = FALSE
    /\ error = ""
    /\ Cleared
    /\ isSuccess = FALSE
    /\ inputValue = NoSelection
    /\ pending = <<>>

DisallowedNames == {f \in FileNames : ~IsAllowed(f)}

(* A change event whose file handleFileChange turns down *)
InvalidSelection ==
    \E f \in DisallowedNames : f /= inputValue /\ handleFileChange(f)

FailedResponses == {Rejected(c) : c \in FailureCauses} \cup {Fulfilled(Null)}

----------------------------------------------------------------------------
C2_HandleFileChangeAsClaimed ==
    [][\A f \in FileNames :
          (f /= inputValue /\ handleFileChange(f)) =>
              IF fileExtension(f) \in ClaimedExtensions
              THEN file' = FileObj(f) /\ fileName' = f /\ error' = ""
              ELSE /\ lastAlert' = InvalidTypeAlert
                   /\ inputValue' = NoSelection
                   /\ file' = Null
                   /\ fileName' = <<>>]_vars

(* C3: at most one upload request is in flight in any reachable state.     *)
C3_AtMostOneInFlight == Len(pending) <= 1

C3_Witness ==
    /\ Len(pending) = 1
    /\ file /= Null
    /\ file /= pending[1].formData.file
    /\ submitDisabled

(* C4: while a request is in flight every result field is cleared, the    *)
(* success flag is false and the error message is empty.                   *)
C4_NoStaleResultsWhileLoading ==
    loading => (Cleared /\ ~isSuccess /\ error = "")

C4_Witness ==
    /\ loading
    /\ file = Null
    /\ lastAlert = InvalidTypeAlert

(* C5: a request that fails leaves the fixed error message, a false        *)
(* success flag, loading reset and no result field populated; and an error *)
(* message never coexists with populated results.                          *)
C5_FailureShowsOnlyError ==
    /\ [](error /= "" =>
            (error = UploadError /\ ~isSuccess /\ Cleared /\ ~hasResults))
    /\ [][\A i \in DOMAIN pending, r \in FailedResponses,
             now \in Clock, rnd \in RandomIds :
             afterAwait(i, r, now, rnd) =>
                 /\ error' = UploadError
                 /\ ~isSuccess'
                 /\ ~loading'
                 /\ Cleared'
                 /\ ~documentInfoRendered']_vars

C5_Witness ==
    /\ error = UploadError
    /\ ~loading
    /\ file /= Null

(* C6: loading is true exactly while a request is in flight: only a step  *)
(* that issues a request sets it, and every step in which a request        *)
(* settles, successfully or not, leaves it false.                          *)
C6_LoadingExactlyWhileInFlight ==
    /\ [](loading <=> Len(pending) > 0)
    /\ [][loading' /\ ~loading => Len(pending') = Len(pending) + 1]_vars
    /\ [][Len(pending') < Len(pending) => ~loading']_vars

C6_Witness ==
    /\ loading
    /\ Len(pending) = 1
    /\ inputValue = NoSelection
    /\ file /= Null

(* C7: a reset leaves the component as a fresh mount has it: every state   *)
(* field at its initial value and the file input empty, so that it reacts  *)
(* to the next selection as a new component would.                         *)
C7_ResetEqualsFreshMount ==
    [][ResetButtonClick => FreshMount']_vars

(* C8: after every successful response the document info section is       *)
(* rendered with every field populated and keyword_count equal to the      *)
(* number of keywords received.                                            *)
C8_DocumentInfoRenderedAfterSuccess ==
    isSuccess =>
        /\ documentInfoRendered
        /\ Truthy(documentInfo.filename)
        /\ Truthy(documentInfo.upload_date)
        /\ documentInfo.id.jstype = "number"
        /\ Truthy(documentInfo.status)
        /\ documentInfo.keyword_count = Num(Len(keywords.items))

(* C9 as stated: a submit with no file changes no state field and issues   *)
(* no request; a selection with a disallowed extension changes nothing but *)
(* the selection and issues no request.                                    *)
C9_ValidationFailureFrame ==
    [][/\ SubmitWithoutFile =>
            UNCHANGED <<file, fileName, loading, error, results, isSuccess,
                        inputValue, pending>>
       /\ InvalidSelection =>
            UNCHANGED <<loading, error, results, isSuccess, pending>>]_vars

(* C9 amended: as above, except that a selection with a disallowed         *)
(* extension also resets the success flag to false.                        *)
C9_ValidationFailureFrameAmended ==
    [][/\ SubmitWithoutFile =>
            UNCHANGED <<file, fileName, loading, error, results, isSuccess,
                        inputValue, pending>>
       /\ InvalidSelection =>
            (UNCHANGED <<loading, error, results, pending>> /\ isSuccess' = FALSE)]_vars

C9_Witness ==
    /\ lastAlert = InvalidTypeAlert
    /\ hasResults
    /\ ~isSuccess
    /\ ~loading

(* C10: the badge shows the label and style of ACCEPT, REJECT or REVIEW    *)
(* for those decisions and the REVIEW label and style for any other.       *)
ExpectedBadge(decision) ==
    LET shown == IF decision \in {"ACCEPT", "REJECT", "REVIEW"}
                 THEN decision ELSE "REVIEW"
    IN [style |-> Own(styleMap[shown]), text |-> Own(decisionText[shown])]

C10_BadgeFallsBackToReview ==
    Truthy(evaluation) =>
        renderDecisionBadge(evaluation.decision) = ExpectedBadge(evaluation.decision)

====
